---- MODULE Spec2Model ----
(***************************************************************************)
(* A model of yt-dlp-wrapper.py: VideoDownloader.download_video and the    *)
(* helpers it calls, driven by main().                                      *)
(*                                                                         *)
(* A text (a Python str) is a sequence of chunks; a chunk is a string that *)
(* the code only ever handles whole (one character of a title or a date,   *)
(* one phrase of a diagnostic, one piece of a command-line argument).      *)
(* "x in text" and text.startswith(x) are containment and first-chunk      *)
(* tests on that sequence.                                                  *)
(***************************************************************************)
EXTENDS Integers, Sequences, FiniteSets, TLC

(* ----------------------------- bounds ---------------------------------- *)

\* The external invocations one run of the model may issue.  The code as
\* written issues at most 3 per attempt (listing, metadata, download).
MaxCalls == 24

\* The lines of a listing handed to a function applied on its own.
MaxLines == 3

(* ------------------------ Python values -------------------------------- *)

\* Optional[str] holding a client identity: None, or a string.
None == "None"

\* Optional text: the text NONE stands for Python's None.
NONE == <<"<None>">>

\* Python truthiness of an Optional[str] (client identity).
Falsy(s) == s = None \/ s = ""

\* Python truthiness of an optional text ("" and None are falsy).
FalsyText(t) == t = NONE \/ t = <<>>

\* "chunk in text"
Contains(text, chunk) == \E i \in 1..Len(text) : text[i] = chunk

\* text.startswith(chunk)
StartsWith(text, chunk) == Len(text) >= 1 /\ text[1] = chunk

(* ----------------------- module constants ------------------------------ *)

DEFAULT_FORMAT_SELECTOR ==
    << "bestvideo[height<=2160][vcodec~='^(av01|vp9|avc1)']+bestaudio/",
       "bestvideo[height<=1440][vcodec~='^(av01|vp9|avc1)']+bestaudio/",
       "bestvideo[height<=1080][vcodec~='^(av01|vp9|avc1)']+bestaudio/",
       "bestvideo[height<=720][vcodec~='^(av01|vp9|avc1)']+bestaudio/",
       "best[ext=mp4]/best" >>

YOUTUBE_CLIENTS == << "web", "android", "tv", "web_music", "android_music" >>

\* The dict in insertion order: platform, then its domains.
SUPPORTED_PLATFORMS ==
    << [platform |-> "youtube", domains |-> {"youtube.com", "youtu.be"}],
       [platform |-> "x",       domains |-> {"twitter.com", "x.com"}],
       [platform |-> "other",   domains |-> {}] >>

\* The phrases of the SABR test in the CalledProcessError handler.
SABR_PHRASES ==
    { "web client https formats require a GVS PO Token",
      "YouTube is forcing SABR streaming",
      "only SABR formats" }

(* -------------------------- subprocess -------------------------------- *)

\* What one subprocess.run may do: return (exc = "none"), raise
\* CalledProcessError (non-zero exit; the process has written `stderr` to its
\* error stream and `stdout` to its output stream), raise TimeoutExpired, or
\* be interrupted by the user (KeyboardInterrupt).
Outcome(exc, stdout, stderr) == [exc |-> exc, stdout |-> stdout, stderr |-> stderr]

\* _run_command: subprocess.run(..., capture_output=True, check=True); the
\* pair (success, output).  A KeyboardInterrupt is not caught here.
RunCommand(o) ==
    CASE o.exc = "none"               -> [success |-> TRUE,  output |-> o.stdout]
      [] o.exc = "TimeoutExpired"     -> [success |-> FALSE, output |-> <<>>]
      [] o.exc = "CalledProcessError" -> [success |-> FALSE, output |-> o.stderr]

(* ------------------------ detect_platform ------------------------------ *)

\* A URL: its text and the domain fragments its lower-cased text contains.
Url(text, fragments) == [text |-> text, fragments |-> fragments]

MinOf(S) == CHOOSE m \in S : \A n \in S : m <= n

DetectPlatform(url) ==
    LET hits == { i \in 1..Len(SUPPORTED_PLATFORMS) :
                    SUPPORTED_PLATFORMS[i].domains \cap url.fragments # {} }
    IN  IF hits = {} THEN "other" ELSE SUPPORTED_PLATFORMS[MinOf(hits)].platform

(* ------------------------- get_video_info ------------------------------ *)

\* The metadata dict, with NONE for a key that is absent.
Info(title, upload_date, release_date) ==
    [title |-> title, upload_date |-> upload_date, release_date |-> release_date]

EmptyInfo == Info(NONE, NONE, NONE)

\* The standard output of `yt-dlp -j`: a text that json.loads either parses
\* into a dict or rejects (JSONDecodeError).
JsonText(info)  == [valid |-> TRUE,  empty |-> FALSE, info |-> info]
BadJsonText     == [valid |-> FALSE, empty |-> FALSE, info |-> EmptyInfo]
EmptyJsonText   == [valid |-> FALSE, empty |-> TRUE,  info |-> EmptyInfo]

\* get_video_info: {} unless the command succeeded with an output that parses.
GetVideoInfoResult(o) ==
    LET r == RunCommand(o)
    IN  IF ~r.success \/ r.output.empty THEN EmptyInfo
        ELSE IF r.output.valid THEN r.output.info
        ELSE EmptyInfo

\* info.get(key, default)
InfoGet(v, default) == IF v = NONE THEN default ELSE v

\* title = info.get('title', 'video')
TitleOf(info) == InfoGet(info.title, <<"v", "i", "d", "e", "o">>)

\* date_str = info.get('upload_date') or info.get('release_date')
DateStrOf(info) ==
    IF FalsyText(info.upload_date) THEN info.release_date ELSE info.upload_date

(* ------------------------ create_output_dir ---------------------------- *)

DigitChars == << "0", "1", "2", "3", "4", "5", "6", "7", "8", "9" >>

IsDigit(c) == \E i \in 1..Len(DigitChars) : DigitChars[i] = c

DigitVal(c) == (CHOOSE i \in 1..Len(DigitChars) : DigitChars[i] = c) - 1

\* The number a text of digits spells.
RECURSIVE NumVal(_)
NumVal(t) ==
    IF t = <<>> THEN 0
    ELSE 10 * NumVal(SubSeq(t, 1, Len(t) - 1)) + DigitVal(t[Len(t)])

AllDigits(t) == \A i \in 1..Len(t) : IsDigit(t[i])

IsLeap(y) == (y % 4 = 0 /\ y % 100 # 0) \/ y % 400 = 0

DaysInMonth(y, m) ==
    IF m = 2 THEN (IF IsLeap(y) THEN 29 ELSE 28)
    ELSE IF m \in {4, 6, 9, 11} THEN 30 ELSE 31

\* %m of strptime: 1[0-2] | 0[1-9] | [1-9]
MonthField(t) ==
    /\ AllDigits(t)
    /\ \/ Len(t) = 2 /\ NumVal(t) \in 1..12
       \/ Len(t) = 1 /\ NumVal(t) \in 1..9

\* %d of strptime: 3[01] | [12]\d | 0[1-9] | [1-9]
DayField(t) ==
    /\ AllDigits(t)
    /\ \/ Len(t) = 2 /\ NumVal(t) \in 1..31
       \/ Len(t) = 1 /\ NumVal(t) \in 1..9

\* datetime.strptime(date_str, '%Y%m%d'): the regular expression takes four
\* digits for the year, then a month of two digits if that lets the rest match
\* and else of one, then the day; the date must exist (year >= 1).
Strptime(t) ==
    LET rest  == SubSeq(t, 5, Len(t))
        split(k) == /\ Len(rest) > k
                    /\ MonthField(SubSeq(rest, 1, k))
                    /\ DayField(SubSeq(rest, k + 1, Len(rest)))
        k     == IF split(2) THEN 2 ELSE 1
        y     == NumVal(SubSeq(t, 1, 4))
        m     == NumVal(SubSeq(rest, 1, k))
        d     == NumVal(SubSeq(rest, k + 1, Len(rest)))
    IN  IF /\ Len(t) >= 6
           /\ AllDigits(SubSeq(t, 1, 4))
           /\ (split(2) \/ split(1))
           /\ y >= 1
           /\ d <= DaysInMonth(y, m)
        THEN [ok |-> TRUE, y |-> y, m |-> m, d |-> d]
        ELSE [ok |-> FALSE, y |-> 0, m |-> 0, d |-> 0]

\* n written with `width` digits, zero-padded.
RECURSIVE Pad(_, _)
Pad(n, width) ==
    IF width = 0 THEN <<>>
    ELSE Pad(n \div 10, width - 1) \o << DigitChars[(n % 10) + 1] >>

\* strftime('%Y.%m.%d')
Strftime(dt) == Pad(dt.y, 4) \o <<".">> \o Pad(dt.m, 2) \o <<".">> \o Pad(dt.d, 2)

\* The characters re.sub(r'[\\/:*?\"<>|]', '', title) removes.
ForbiddenChars == { "\\", "/", ":", "*", "?", "\"", "<", ">", "|" }

Whitespace == { " ", "\t", "\n" }

\* str.strip()
Strip(t) ==
    LET keep == { i \in 1..Len(t) : t[i] \notin Whitespace }
    IN  IF keep = {} THEN <<>>
        ELSE SubSeq(t, MinOf(keep), CHOOSE m \in keep : \A n \in keep : n <= m)

\* The [:100] of clean_title.
TitleLimit == 100

\* clean_title without the strip().
CleanTitleNoStrip(title) ==
    LET kept == SelectSeq(title, LAMBDA c : c \notin ForbiddenChars)
    IN  SubSeq(kept, 1, IF Len(kept) < TitleLimit THEN Len(kept) ELSE TitleLimit)

CleanTitle(title) ==
    LET stripped == Strip(SelectSeq(title, LAMBDA c : c \notin ForbiddenChars))
    IN  SubSeq(stripped, 1, IF Len(stripped) < TitleLimit THEN Len(stripped) ELSE TitleLimit)

\* date_fmt, given what datetime.now().strftime('%Y.%m.%d') returns.
DateFmt(date_str, now) ==
    IF FalsyText(date_str) THEN now
    ELSE IF Strptime(date_str).ok THEN Strftime(Strptime(date_str))
    ELSE now

\* folder_name and the path Path.home() / "Downloads" / folder_name
FolderName(title, date_str, now) ==
    DateFmt(date_str, now) \o <<" - ">> \o CleanTitle(title)

OutputDir(title, date_str, now) ==
    << "~/Downloads/" >> \o FolderName(title, date_str, now)

\* output_dir.mkdir(parents=True) without exist_ok: an existing directory
\* raises FileExistsError, an OSError.
MkdirNoExistOk(fs, path, os_ok) ==
    IF path \in fs \/ ~os_ok THEN [exc |-> "OSError", fs |-> fs]
    ELSE [exc |-> "none", fs |-> fs \cup {path}]

\* output_dir.mkdir(parents=True, exist_ok=True) on the directories fs: an
\* existing directory is left as it is; a new one is made unless the
\* operating system refuses (permissions, invalid path).
Mkdir(fs, path, os_ok) ==
    IF path \in fs THEN [exc |-> "none", fs |-> fs]
    ELSE IF os_ok THEN [exc |-> "none", fs |-> fs \cup {path}]
    ELSE [exc |-> "OSError", fs |-> fs]

\* create_output_dir as a whole: the path it returns, or the error it raises,
\* and the directories afterwards.
CreateOutputDirCall(title, date_str, now, fs, os_ok) ==
    LET output_dir == OutputDir(title, date_str, now)
        made       == Mkdir(fs, output_dir, os_ok)
    IN  IF made.exc = "none"
        THEN [exc |-> "none", path |-> output_dir, fs |-> made.fs]
        ELSE [exc |-> "YtDlpWrapperError", path |-> NONE, fs |-> made.fs]

(* ---------------------- check_premium_formats -------------------------- *)

\* One line of the listing `yt-dlp -F` prints, by what the code reads of it:
\* id is the digits re.search(r'^(\d+)\s+') finds ("" when the line does not
\* begin with digits and white space), premium is 'Premium' in line, and
\* res is the first WxH of the line as <<W, H>> (<<>> when there is none).
Line(id, premium, res) == [id |-> id, premium |-> premium, res |-> res]

\* The loop over output.split('\n'): best is (best_premium_id, best_height),
\* with "" for no id yet.
RECURSIVE PremiumScan(_, _)
PremiumScan(lines, best) ==
    IF lines = <<>> THEN best
    ELSE LET line   == Head(lines)
             height == IF line.res = <<>> THEN 0 ELSE line.res[2]
             next   == IF /\ line.premium
                          /\ line.id # ""
                          /\ height > best.height
                       THEN [id |-> line.id, height |-> height]
                       ELSE best
         IN  PremiumScan(Tail(lines), next)

\* check_premium_formats: the selector text, or NONE.
CheckPremiumFormats(o) ==
    LET r    == RunCommand(o)
        best == PremiumScan(r.output, [id |-> "", height |-> 0])
    IN  IF ~r.success \/ r.output = <<>> THEN NONE
        ELSE IF best.id = "" THEN NONE
        ELSE << best.id, "+bestaudio/best" >>

(* ------------------------- download_video ------------------------------ *)

\* VideoDownloader(cookies_browser='firefox')
cookies_browser == "firefox"

\* One activation of download_video: its parameters and the locals it has
\* assigned so far.  pc is the external call it is blocked in or about to make:
\*   "premium"  check_premium_formats (yt-dlp -F)
\*   "info"     get_video_info (yt-dlp -j)
\*   "mkdir"    create_output_dir
\*   "run"      subprocess.run(base_cmd)
\*   "loop"     inside `for client in available_clients`, in the nested call
\*   "sabr"     inside the nested call of `return self.download_video(...)`
\* Entry runs the code up to the first external call: the premium test and
\* the DEFAULT_FORMAT_SELECTOR default.
NewFrame(platform, extra_args, format_selector, youtube_client, try_sabr, try_fallback_clients, prefer_premium) ==
    LET premium == platform = "youtube" /\ prefer_premium /\ FalsyText(format_selector)
    IN  [ pc                   |-> IF premium THEN "premium" ELSE "info",
          extra_args           |-> extra_args,
          format_selector      |-> IF ~premium /\ format_selector = NONE
                                   THEN DEFAULT_FORMAT_SELECTOR ELSE format_selector,
          youtube_client       |-> youtube_client,
          try_sabr             |-> try_sabr,
          try_fallback_clients |-> try_fallback_clients,
          prefer_premium       |-> prefer_premium,
          title                |-> NONE,
          date_str             |-> NONE,
          output_dir           |-> NONE,
          base_cmd             |-> <<>>,
          sabr_related         |-> FALSE,
          available_clients    |-> <<>>,
          idx                  |-> 0 ]

\* After check_premium_formats returned premium_format.
AfterPremium(f, premium_format) ==
    LET chosen == IF FalsyText(premium_format) THEN f.format_selector ELSE premium_format
    IN  [f EXCEPT !.pc = "info",
                  !.format_selector = IF chosen = NONE THEN DEFAULT_FORMAT_SELECTOR
                                      ELSE chosen]

\* The YouTube part of the command: the client option, then the SABR option,
\* merged into the client option when base_cmd already has --extractor-args.
YoutubeArgs(base_cmd, youtube_client, try_sabr) ==
    LET formats_arg == << "youtube:formats=duplicate" >>
        with_client ==
            IF Falsy(youtube_client) THEN base_cmd
            ELSE base_cmd \o << << "--extractor-args" >>,
                                << "youtube:player-client=", youtube_client >> >>
        has_args == \E i \in 1..Len(with_client) :
                        StartsWith(with_client[i], "--extractor-args")
        at == { i \in 1..Len(with_client) :
                    StartsWith(with_client[i], "youtube:player-client=") }
    IN  IF ~try_sabr THEN with_client
        ELSE IF has_args
             THEN IF at = {} THEN with_client
                  ELSE [with_client EXCEPT ![MinOf(at)] = @ \o <<";">> \o formats_arg]
             ELSE with_client \o << << "--extractor-args" >>, formats_arg >>

\* base_cmd as handed to subprocess.run.
BaseCmd(platform, url, f, output_dir) ==
    LET head == << << "yt-dlp" >>,
                   << "--cookies-from-browser" >>, << cookies_browser >>,
                   << "-f" >>, f.format_selector,
                   << "--write-auto-sub" >>,
                   << "--sub-lang" >>, << "en.*" >>,
                   << "--convert-subs" >>, << "srt" >>,
                   << "--ignore-errors" >>,
                   << "-P" >>, output_dir,
                   << "--no-mtime" >>,
                   << "--embed-metadata" >> >>
        yt   == IF platform = "youtube"
                THEN YoutubeArgs(head, f.youtube_client, f.try_sabr)
                ELSE head
    IN  yt \o f.extra_args \o << url.text >>

\* e.stderr of the CalledProcessError that subprocess.run(base_cmd,
\* check=True, timeout=3600) raises: the call captures nothing (no
\* capture_output, no stderr=PIPE), so the attribute is None whatever the
\* process wrote.
DownloadStderr(o) == NONE

\* error_output = e.stderr if e.stderr else ""
ErrorOutput(o) == IF FalsyText(DownloadStderr(o)) THEN <<>> ELSE DownloadStderr(o)

\* sabr_related
SabrRelated(platform, error_output) ==
    platform = "youtube" /\ \E phrase \in SABR_PHRASES : Contains(error_output, phrase)

\* The condition of the fallback branch.
\* FallbackCondition without the test of the platform.
FallbackConditionAnyPlatform(platform, f, sabr_related) ==
    /\ f.try_fallback_clients
    /\ (sabr_related \/ Falsy(f.youtube_client))

FallbackCondition(platform, f, sabr_related) ==
    /\ platform = "youtube"
    /\ f.try_fallback_clients
    /\ (sabr_related \/ Falsy(f.youtube_client))

\* available_clients
AvailableClients(youtube_client) ==
    SelectSeq(YOUTUBE_CLIENTS, LAMBDA c : c # youtube_client)

\* filtered_args
FilteredArgs(extra_args) ==
    SelectSeq(extra_args, LAMBDA arg : ~Contains(arg, "--extractor-args"))

\* FallbackCall with the caller's own client and flags passed on.
FallbackCallForwarding(platform, f, client) ==
    NewFrame(platform, FilteredArgs(f.extra_args), f.format_selector,
             f.youtube_client, f.try_sabr, f.try_fallback_clients, TRUE)

\* FallbackCall with try_fallback_clients=True.
FallbackCallRecursing(platform, f, client) ==
    NewFrame(platform, FilteredArgs(f.extra_args), f.format_selector, client,
             FALSE, TRUE, TRUE)

\* The nested call of the loop body (prefer_premium takes its default).
FallbackCall(platform, f, client) ==
    NewFrame(platform, FilteredArgs(f.extra_args), f.format_selector, client,
             FALSE, FALSE, TRUE)

\* The nested call with SABR enabled.
SabrCall(platform, f) ==
    NewFrame(platform, FilteredArgs(f.extra_args), f.format_selector,
             IF Falsy(f.youtube_client) THEN "web" ELSE f.youtube_client,
             TRUE, FALSE, TRUE)

\* ExceptClause with a bare `except:` in place of `except TimeoutExpired`.
ExceptClauseBare(exc) ==
    CASE exc = "none"               -> "return True"
      [] exc = "CalledProcessError" -> "except CalledProcessError"
      [] OTHER                      -> "except TimeoutExpired"

\* ExceptClause with `except (CalledProcessError, TimeoutExpired)`.
ExceptClauseMerged(exc) ==
    CASE exc = "none"               -> "return True"
      [] exc = "CalledProcessError" -> "except CalledProcessError"
      [] exc = "TimeoutExpired"     -> "except CalledProcessError"
      [] OTHER                      -> "propagate"

\* ExceptClause without the `except TimeoutExpired` clause.
ExceptClauseNoTimeout(exc) ==
    CASE exc = "none"               -> "return True"
      [] exc = "CalledProcessError" -> "except CalledProcessError"
      [] OTHER                      -> "propagate"

\* Which clause of the try statement around subprocess.run takes an outcome.
ExceptClause(exc) ==
    CASE exc = "none"               -> "return True"
      [] exc = "CalledProcessError" -> "except CalledProcessError"
      [] exc = "TimeoutExpired"     -> "except TimeoutExpired"
      [] OTHER                      -> "propagate"

\* How main's try statement ends when exc reaches it.
Propagated(exc) ==
    CASE exc = "KeyboardInterrupt"  -> "KeyboardInterrupt"
      [] exc = "YtDlpWrapperError"  -> "YtDlpWrapperError"
      [] OTHER                      -> "Exception"

\* StopsLoop with the result of the nested call ignored.
StopsLoopNever(v) == FALSE

\* `if self.download_video(...): return True`
StopsLoop(v) == v

\* What a step leaves: the call stack, the job's result ("running" until main
\* has one) and the retry states the step entered.
NoEntry == [fallback |-> 0, sabr |-> 0]

Running(stk, ev) == [stack |-> stk, result |-> "running", ev |-> ev]

Ended(result, ev) == [stack |-> <<>>, result |-> result, ev |-> ev]

Front(stk) == SubSeq(stk, 1, Len(stk) - 1)

RECURSIVE Return(_, _, _, _)
RECURSIVE LoopNext(_, _, _)

\* The top activation returns v to its caller: main, the loop (`if
\* self.download_video(...): return True`) or `return self.download_video(...)`.
Return(platform, stk, v, ev) ==
    IF Len(stk) = 1 THEN Ended(IF v THEN "True" ELSE "False", ev)
    ELSE LET rest   == Front(stk)
             caller == rest[Len(rest)]
         IN  IF caller.pc = "sabr" THEN Return(platform, rest, v, ev)
             ELSE IF StopsLoop(v) THEN Return(platform, rest, TRUE, ev)
             ELSE LoopNext(platform, rest, ev)

\* The top activation is in its for loop: the next iteration's call, or, past
\* the last client, the SABR call or `return False`.
LoopNext(platform, stk, ev) ==
    LET f == stk[Len(stk)]
    IN  IF f.idx < Len(f.available_clients)
        THEN Running(Front(stk)
                       \o << [f EXCEPT !.idx = @ + 1] >>
                       \o << FallbackCall(platform, f, f.available_clients[f.idx + 1]) >>,
                     ev)
        ELSE IF f.sabr_related /\ ~f.try_sabr
        THEN Running(Front(stk)
                       \o << [f EXCEPT !.pc = "sabr"] >>
                       \o << SabrCall(platform, f) >>,
                     [ev EXCEPT !.sabr = @ + 1])
        ELSE Return(platform, stk, FALSE, ev)

\* MkdirRaises with the error caught in download_video and False returned.
MkdirRaisesCaught(platform, stk) == Return(platform, stk, FALSE, NoEntry)

\* create_output_dir raises YtDlpWrapperError on OSError; no activation of
\* download_video catches it, main does.
MkdirRaises(platform, stk) == Ended(Propagated("YtDlpWrapperError"), NoEntry)

\* The try statement around subprocess.run(base_cmd), for one outcome.
HandleDownload(platform, stk, o) ==
    LET f            == stk[Len(stk)]
        clause       == ExceptClause(o.exc)
        sabr_related == SabrRelated(platform, ErrorOutput(o))
    IN  CASE clause = "return True" -> Return(platform, stk, TRUE, NoEntry)
          [] clause = "except CalledProcessError" ->
                IF FallbackCondition(platform, f, sabr_related)
                THEN LoopNext(platform,
                              Front(stk) \o
                                << [f EXCEPT !.pc = "loop",
                                             !.sabr_related = sabr_related,
                                             !.available_clients =
                                                 AvailableClients(f.youtube_client),
                                             !.idx = 0] >>,
                              [fallback |-> 1, sabr |-> 0])
                ELSE Return(platform, stk, FALSE, NoEntry)
          [] clause = "except TimeoutExpired" -> Return(platform, stk, FALSE, NoEntry)
          [] OTHER -> Ended(Propagated(o.exc), NoEntry)

(* ------------------------------ inputs --------------------------------- *)

Urls ==
    { Url(<< "https://www.youtube.com/watch?v=VIDEO_ID" >>, {"youtube.com"}),
      Url(<< "https://x.com/user/status/TWEET_ID" >>, {"x.com"}),
      Url(<< "https://vimeo.com/1" >>, {}) }

\* --format: absent, the empty string, or a selector.
FormatArgs == { NONE, <<>>, << "best[height<=720]" >> }

\* --youtube-client: absent, or one of the choices.
ClientArgs == { None } \cup { YOUTUBE_CLIENTS[i] : i \in 1..Len(YOUTUBE_CLIENTS) }

\* The arguments parse_known_args does not know and main passes through.
ExtraArgs ==
    { <<>>,
      << << "--extractor-args" >>, << "youtube:player-client=", "ios" >>,
         << "--no-playlist" >> >> }

\* What the download may write to its error stream when it exits non-zero.
DiagTexts ==
    { <<>>,
      << "ERROR: [youtube] VIDEO_ID: Video unavailable" >>,
      << "WARNING: [youtube] ", "YouTube is forcing SABR streaming",
         " for this client" >> }

DownloadOutcomes ==
    { Outcome("none", <<>>, <<>>),
      Outcome("TimeoutExpired", <<>>, <<>>),
      Outcome("KeyboardInterrupt", <<>>, <<>>) }
    \cup { Outcome("CalledProcessError", <<>>, d) : d \in DiagTexts }

Listings ==
    { <<>>,
      << Line("137", FALSE, <<1920, 1080>>), Line("140", FALSE, <<>>) >>,
      << Line("", TRUE, <<>>),
         Line("356", TRUE, <<1280, 720>>),
         Line("616", TRUE, <<1920, 1080>>) >> }

ListingOutcomes ==
    { Outcome("none", l, <<>>) : l \in Listings }
    \cup { Outcome("CalledProcessError", <<>>, << "ERROR: unable to list" >>),
           Outcome("TimeoutExpired", <<>>, <<>>),
           Outcome("KeyboardInterrupt", <<>>, <<>>) }

MetaInfos ==
    { Info(<< "A", ":", " ", "b", "?" >>,
           << "2", "0", "2", "4", "0", "1", "3", "1" >>, NONE) }

MetaOutcomes ==
    { Outcome("none", JsonText(i), <<>>) : i \in MetaInfos }
    \cup { Outcome("none", BadJsonText, <<>>),
           Outcome("CalledProcessError", EmptyJsonText, << "ERROR: no metadata" >>),
           Outcome("KeyboardInterrupt", EmptyJsonText, <<>>) }

\* What datetime.now().strftime('%Y.%m.%d') may return during one job, in
\* the order of the calendar.
Days ==
    << << "2", "0", "2", "4", ".", "0", "2", ".", "0", "1" >>,
       << "2", "0", "2", "4", ".", "0", "2", ".", "0", "2" >> >>

(* ------------------------------- state --------------------------------- *)

VARIABLES
    url,        \* args.url
    args,       \* what main parsed from the command line
    stack,      \* the activations of download_video, main's call first
    result,     \* "running", or how main's try statement ended
    calls,      \* the external invocations issued so far, in order
    primary,    \* the outcome of the download of main's call
    last,       \* the outcome of the latest download, and its activation's depth
    nFallback,  \* how often a fallback-client loop was entered
    nSabr,      \* how often the SABR call was made
    today,      \* the index in Days of the current date
    fatal,      \* the depth of the activation whose mkdir raised, 0 for none
    fn          \* the function applied on its own, its input and its output

vars == << url, args, stack, result, calls, primary, last, nFallback, nSabr, today, fatal, fn >>

\* No function is being applied on its own: a job is running.
NoFn == [op |-> "none"]

platform == DetectPlatform(url)

Top == stack[Len(stack)]

\* The record of one external invocation: which call, from which activation,
\* and how it ended.  _run_command turns a failed or timed-out listing or
\* metadata query into a return value, so those calls end "returned".
Call(kind, f, o) ==
    [ kind                 |-> kind,
      depth                |-> Len(stack),
      youtube_client       |-> f.youtube_client,
      try_sabr             |-> f.try_sabr,
      try_fallback_clients |-> f.try_fallback_clients,
      status               |-> CASE o.exc = "KeyboardInterrupt" -> "interrupt"
                                 [] kind # "download" -> "returned"
                                 [] o.exc = "none" -> "success"
                                 [] OTHER -> "failure" ]

\* main: the call of download_video with the parsed arguments.
MainCall(u, a) ==
    NewFrame(DetectPlatform(u), a.extra_args, a.format, a.youtube_client,
             a.enable_sabr, ~a.no_fallback, ~a.no_premium)

\* sys.exit's code for each way main's try statement ends.
ExitCode(r) == IF r = "True" THEN 0 ELSE 1

Init ==
    /\ url \in Urls
    /\ args \in [ format : FormatArgs, youtube_client : ClientArgs,
                  enable_sabr : BOOLEAN, no_fallback : BOOLEAN,
                  no_premium : BOOLEAN, extra_args : ExtraArgs ]
    /\ stack = << MainCall(url, args) >>
    /\ result = "running"
    /\ calls = <<>>
    /\ primary = [exc |-> "pending", diag |-> <<>>, sabr_related |-> FALSE]
    /\ last = [exc |-> "pending", depth |-> 0]
    /\ nFallback = 0
    /\ nSabr = 0
    /\ today = 1
    /\ fatal = 0
    /\ fn = NoFn

Blocked(pc) ==
    /\ result = "running"
    /\ Len(calls) < MaxCalls
    /\ Top.pc = pc

\* check_premium_formats returns or is interrupted.
CheckPremium ==
    /\ Blocked("premium")
    /\ \E o \in ListingOutcomes :
        /\ calls' = Append(calls, Call("listing", Top, o))
        /\ IF o.exc = "KeyboardInterrupt"
           THEN stack' = <<>> /\ result' = Propagated(o.exc)
           ELSE /\ stack' = Front(stack) \o << AfterPremium(Top, CheckPremiumFormats(o)) >>
                /\ result' = result
    /\ UNCHANGED << url, args, primary, last, nFallback, nSabr, today, fatal, fn >>

\* get_video_info returns or is interrupted; title and date_str are read.
GetVideoInfo ==
    /\ Blocked("info")
    /\ \E o \in MetaOutcomes :
        /\ calls' = Append(calls, Call("metadata", Top, o))
        /\ IF o.exc = "KeyboardInterrupt"
           THEN stack' = <<>> /\ result' = Propagated(o.exc)
           ELSE /\ stack' = Front(stack) \o
                      << [Top EXCEPT !.pc = "mkdir",
                                     !.title = TitleOf(GetVideoInfoResult(o)),
                                     !.date_str = DateStrOf(GetVideoInfoResult(o))] >>
                /\ result' = result
    /\ UNCHANGED << url, args, primary, last, nFallback, nSabr, today, fatal, fn >>

\* create_output_dir: mkdir succeeds, or raises YtDlpWrapperError up to main;
\* then the command is built.
CreateOutputDir ==
    /\ Blocked("mkdir")
    /\ \E mkdir_ok \in BOOLEAN, day \in today..Len(Days) :
        LET output_dir == OutputDir(Top.title, Top.date_str, Days[day])
        IN  /\ today' = day
            /\ IF mkdir_ok
               THEN /\ stack' = Front(stack) \o
                          << [Top EXCEPT !.pc = "run",
                                         !.output_dir = output_dir,
                                         !.base_cmd = BaseCmd(platform, url, Top, output_dir)] >>
                    /\ result' = result
                    /\ fatal' = fatal
               ELSE /\ stack' = MkdirRaises(platform, stack).stack
                    /\ result' = MkdirRaises(platform, stack).result
                    /\ fatal' = Len(stack)
    /\ UNCHANGED << url, args, calls, primary, last, nFallback, nSabr, fn >>

\* subprocess.run(base_cmd) ends; the try statement handles it, through every
\* return and nested call up to the next external call.
RunDownload ==
    /\ Blocked("run")
    /\ \E o \in DownloadOutcomes :
        LET r == HandleDownload(platform, stack, o)
        IN  /\ calls' = Append(calls, Call("download", Top, o))
            /\ stack' = r.stack
            /\ result' = r.result
            /\ nFallback' = nFallback + r.ev.fallback
            /\ nSabr' = nSabr + r.ev.sabr
            /\ primary' = IF Len(stack) = 1
                          THEN [exc |-> o.exc, diag |-> o.stderr,
                                sabr_related |-> SabrRelated(platform, ErrorOutput(o))]
                          ELSE primary
            /\ last' = [exc |-> o.exc, depth |-> Len(stack)]
    /\ UNCHANGED << url, args, today, fatal, fn >>

Next == CheckPremium \/ GetVideoInfo \/ CreateOutputDir \/ RunDownload

Spec == Init /\ [][Next]_vars

(* ------------- FormatCatalogParser and SeparateStreams ------------------ *)

\* A line of the stream listing is a sequence of tokens, a token a sequence
\* of characters.  <digits>k: the bitrate of a token, if it spells one.
IsRate(tok) ==
    /\ Len(tok) >= 2
    /\ tok[Len(tok)] = "k"
    /\ AllDigits(SubSeq(tok, 1, Len(tok) - 1))

\* The bitrate of a line: the first <digits>k in it, 0 if there is none.
BitrateOf(line) ==
    LET hits == { i \in 1..Len(line) : IsRate(line[i]) }
    IN  IF hits = {} THEN 0
        ELSE NumVal(SubSeq(line[MinOf(hits)], 1, Len(line[MinOf(hits)]) - 1))

VideoContainer == << "m", "p", "4" >>

AudioContainer == << "m", "4", "a" >>

\* A line is a candidate if it begins with a numeric identifier followed by
\* the video or the audio container tag.
IsCandidate(line) ==
    /\ Len(line) >= 2
    /\ line[1] # <<>> /\ AllDigits(line[1])
    /\ line[2] \in { VideoContainer, AudioContainer }

\* parse: the records of the candidate lines, in the order of the listing;
\* every other line is skipped.
RECURSIVE ParseCatalog(_)
ParseCatalog(lines) ==
    IF lines = <<>> THEN <<>>
    ELSE LET line == Head(lines)
         IN  (IF IsCandidate(line)
              THEN << [id |-> line[1], container |-> line[2], bitrateKbps |-> BitrateOf(line)] >>
              ELSE <<>>) \o ParseCatalog(Tail(lines))

\* The index of the last record of greatest bitrate among the indices S.
BestOfLastSeen(catalog, S) ==
    CHOOSE i \in S :
        /\ \A j \in S : catalog[j].bitrateKbps <= catalog[i].bitrateKbps
        /\ \A j \in S : catalog[j].bitrateKbps = catalog[i].bitrateKbps => j <= i

\* The max-reduction: the index of the first record of greatest bitrate
\* among the indices S.
BestOf(catalog, S) ==
    MinOf({ i \in S : \A j \in S : catalog[j].bitrateKbps <= catalog[i].bitrateKbps })

NoSuitableStream == [found |-> FALSE, video |-> <<>>, audio |-> <<>>]

\* select(catalog, SeparateStreams, platform): the best video record and the
\* best audio record, each on its own; nothing if either kind is missing.
SelectSeparateStreams(catalog) ==
    LET video == { i \in 1..Len(catalog) : catalog[i].container = VideoContainer }
        audio == { i \in 1..Len(catalog) : catalog[i].container = AudioContainer }
    IN  IF video = {} \/ audio = {} THEN NoSuitableStream
        ELSE [found |-> TRUE,
              video |-> catalog[BestOf(catalog, video)].id,
              audio |-> catalog[BestOf(catalog, audio)].id]

\* The caller's selector: the two ids to be merged, or the declarative
\* expression when nothing suitable was found.
SelectorOf(selection) ==
    IF selection.found THEN << selection.video, << "+" >>, selection.audio >>
    ELSE DEFAULT_FORMAT_SELECTOR

(* ------------------- functions applied on their own -------------------- *)

\* All sequences over S of length at most n.
RECURSIVE SeqsUpTo(_, _)
SeqsUpTo(S, n) ==
    IF n = 0 THEN { <<>> }
    ELSE LET shorter == SeqsUpTo(S, n - 1)
         IN  shorter \cup { Append(q, x) : q \in shorter, x \in S }

\* Lines of a listing: without a leading id, not Premium, Premium with
\* different and equal heights, Premium without a WxH.
PremiumLines ==
    { Line("", TRUE, <<2560, 1440>>),
      Line("137", FALSE, <<3840, 2160>>),
      Line("356", TRUE, <<1280, 720>>),
      Line("616", TRUE, <<1920, 1080>>),
      Line("721", TRUE, <<1920, 1080>>),
      Line("625", TRUE, <<>>) }

\* check_premium_formats on its own: the outcomes of its listing command.
PremiumInputs ==
    { Outcome("none", l, <<>>) : l \in SeqsUpTo(PremiumLines, MaxLines) }
    \cup { Outcome("CalledProcessError", <<>>, << "ERROR: unable to list" >>),
           Outcome("TimeoutExpired", <<>>, <<>>) }

\* Titles: the scenario of the specification, one with surrounding
\* whitespace, one longer than the limit, one of forbidden characters only,
\* and the placeholder.
ExampleTitle == << "R", "e", "p", "o", "r", "t", ":", " ", "Q", "3", " ", "/", " ", "F", "i", "n", "a", "l", "?" >>

PaddedTitle == << " ", " ", "a", "/", "b", " ", "	" >>

LongTitle ==
    [ i \in 1..(TitleLimit + 20) |->
        IF i = 1 THEN " " ELSE IF i % 7 = 0 THEN "|" ELSE IF i % 5 = 0 THEN " " ELSE "x" ]

DirTitles == { ExampleTitle, PaddedTitle, LongTitle, << "?", "*" >>, << "video" >> }

ExampleDate == << "2", "0", "2", "4", "0", "1", "3", "1" >>

\* Dates: valid, absent, empty, a month that does not exist, a day that does
\* not exist, not a number.
DirDates ==
    { ExampleDate, NONE, <<>>,
      << "2", "0", "2", "4", "1", "3", "3", "1" >>,
      << "2", "0", "2", "3", "0", "2", "2", "9" >>,
      << "soon" >> }

DirInputs == [ title : DirTitles, date_str : DirDates ]

\* How often create_output_dir is called with the same arguments.
DirCalls == 2

\* Lines of a stream listing: the three of the scenario, then equal
\* bitrates, no bitrate, another container, no numeric identifier.
ExampleCatalog ==
    << << << "1", "4", "0" >>, << "m", "4", "a" >>, << "a", "u", "d", "i", "o" >>, << "1", "2", "8", "k" >> >>,
       << << "1", "3", "7" >>, << "m", "p", "4" >>, << "1", "0", "8", "0", "p" >>, << "4", "5", "0", "0", "k" >> >>,
       << << "1", "8" >>, << "m", "p", "4" >>, << "3", "6", "0", "p" >>, << "7", "0", "0", "k" >> >> >>

CatalogLines ==
    { ExampleCatalog[1], ExampleCatalog[2], ExampleCatalog[3],
      << << "2", "9", "9" >>, << "m", "p", "4" >>, << "1", "0", "8", "0", "p", "6", "0" >>, << "4", "5", "0", "0", "k" >> >>,
      << << "1", "4", "1" >>, << "m", "4", "a" >>, << "a", "u", "d", "i", "o" >>, << "1", "2", "8", "k" >> >>,
      << << "2", "2" >>, << "m", "p", "4" >>, << "7", "2", "0", "p" >> >>,
      << << "2", "5", "1" >>, << "w", "e", "b", "m" >>, << "a", "u", "d", "i", "o" >>, << "1", "6", "0", "k" >> >>,
      << << "s", "b", "0" >>, << "m", "h", "t", "m", "l" >>, << "s", "t", "o", "r", "y", "b", "o", "a", "r", "d" >> >> }

CatalogInputs == SeqsUpTo(CatalogLines, MaxLines)

FnInputs ==
    { [op |-> "check_premium_formats", in |-> o, out |-> NONE, done |-> FALSE] :
          o \in PremiumInputs }
    \cup { [op |-> "separate_streams", in |-> l, catalog |-> <<>>, out |-> NoSuitableStream,
             selector |-> <<>>, done |-> FALSE] : l \in CatalogInputs }
    \cup { [op |-> "create_output_dir", in |-> i, out |-> <<>>, done |-> FALSE,
             day |-> 1, fs |-> {}] : i \in DirInputs }

\* No job runs while a function is applied on its own.
FnInit ==
    /\ fn \in FnInputs
    /\ url = Url(<< "https://www.youtube.com/watch?v=VIDEO_ID" >>, {"youtube.com"})
    /\ args = [ format |-> NONE, youtube_client |-> None, enable_sabr |-> FALSE,
                no_fallback |-> FALSE, no_premium |-> FALSE, extra_args |-> <<>> ]
    /\ stack = <<>>
    /\ result = "none"
    /\ calls = <<>>
    /\ primary = [exc |-> "pending", diag |-> <<>>, sabr_related |-> FALSE]
    /\ last = [exc |-> "pending", depth |-> 0]
    /\ nFallback = 0
    /\ nSabr = 0
    /\ today = 1
    /\ fatal = 0

JobVars == << url, args, stack, result, calls, primary, last, nFallback, nSabr, today, fatal >>

\* check_premium_formats returns.
ApplyCheckPremium ==
    /\ fn.op = "check_premium_formats" /\ ~fn.done
    /\ fn' = [fn EXCEPT !.out = CheckPremiumFormats(fn.in), !.done = TRUE]
    /\ UNCHANGED JobVars

\* create_output_dir is called, once more with the same arguments; the
\* local date may have advanced since the call before.
ApplyCreateOutputDir ==
    /\ fn.op = "create_output_dir" /\ ~fn.done
    /\ \E day \in fn.day..Len(Days), os_ok \in BOOLEAN :
        LET r == CreateOutputDirCall(fn.in.title, fn.in.date_str, Days[day], fn.fs, os_ok)
        IN  fn' = [fn EXCEPT !.out = Append(@, [exc |-> r.exc, path |-> r.path, day |-> day]),
                             !.fs = r.fs,
                             !.day = day,
                             !.done = (Len(fn.out) + 1 = DirCalls)]
    /\ UNCHANGED JobVars

\* The listing is parsed, SeparateStreams selects and the caller resolves
\* its selector.
ApplySeparateStreams ==
    /\ fn.op = "separate_streams" /\ ~fn.done
    /\ LET catalog   == ParseCatalog(fn.in)
           selection == SelectSeparateStreams(catalog)
       IN  fn' = [fn EXCEPT !.catalog = catalog,
                            !.out = selection,
                            !.selector = SelectorOf(selection),
                            !.done = TRUE]
    /\ UNCHANGED JobVars

FnNext == ApplyCheckPremium \/ ApplyCreateOutputDir \/ ApplySeparateStreams

SpecFn == FnInit /\ [][FnNext]_vars

(* ------------------------------ claims --------------------------------- *)

\* The download invocations of the job, in order.
Downloads == SelectSeq(calls, LAMBDA c : c.kind = "download")

\* The fallback-client attempts' downloads: nested, without SABR.
FallbackDownloads ==
    SelectSeq(calls, LAMBDA c : c.kind = "download" /\ c.depth >= 2 /\ ~c.try_sabr)

\* The alternate-mode attempts' downloads: nested, with SABR.
SabrDownloads ==
    SelectSeq(calls, LAMBDA c : c.kind = "download" /\ c.depth >= 2 /\ c.try_sabr)

\* The process of the primary download exited non-zero.
PrimaryFailed == primary.exc = "CalledProcessError"

\* The text the primary download wrote to its error stream holds a
\* restriction phrase.
PrimaryDiagBlocked == \E phrase \in SABR_PHRASES : Contains(primary.diag, phrase)

\* The failure category of the primary attempt, by the outcome of its process.
PrimaryCategory ==
    CASE primary.exc = "TimeoutExpired" -> "Timeout"
      [] PrimaryFailed /\ platform = "youtube" /\ PrimaryDiagBlocked -> "PlatformBlocked"
      [] PrimaryFailed -> "Generic"
      [] OTHER -> "none"

\* YOUTUBE_CLIENTS in their declared order, minus the primary's identity.
ExpectedClients == SelectSeq(YOUTUBE_CLIENTS, LAMBDA c : c # args.youtube_client)

\* C1: whatever the URL, the flags and the outcomes of the external tool, a
\* job issues at most 2 + |YOUTUBE_CLIENTS| download invocations: at most one
\* by main's activation (the primary attempt), at most one per client identity
\* and at most one with SABR by the activations nested directly in it, and
\* none by any deeper activation; while the job has no result it is blocked in
\* exactly one external call of its innermost activation.
C1_TerminationBound ==
    /\ Len(Downloads) <= 2 + Len(YOUTUBE_CLIENTS)
    /\ Len(SelectSeq(Downloads, LAMBDA c : c.depth = 1)) <= 1
    /\ Len(SelectSeq(Downloads, LAMBDA c : c.depth = 2 /\ ~c.try_sabr))
          <= Len(YOUTUBE_CLIENTS)
    /\ Len(SelectSeq(Downloads, LAMBDA c : c.depth = 2 /\ c.try_sabr)) <= 1
    /\ \A i \in 1..Len(Downloads) : Downloads[i].depth <= 2
    /\ result = "running" =>
          /\ stack # <<>>
          /\ Top.pc \in {"premium", "info", "mkdir", "run"}
    /\ result # "running" => stack = <<>>

\* A job that ran the primary attempt and every fallback client, and failed.
C1_Witness ==
    /\ result = "False"
    /\ Len(Downloads) = 1 + Len(YOUTUBE_CLIENTS)

\* C2: a YouTube job whose primary attempt (without SABR, with fallback
\* enabled) failed with a restriction phrase in its diagnostic text, and that
\* ended in Failure, made exactly one alternate-mode download, as its last
\* invocation, after a failed attempt for every fallback client.
C2_AlternateModeAfterFallback ==
    ( /\ result = "False"
      /\ platform = "youtube"
      /\ PrimaryFailed /\ PrimaryDiagBlocked
      /\ ~args.no_fallback
      /\ ~args.enable_sabr )
    => /\ Len(SabrDownloads) = 1
       /\ calls[Len(calls)].try_sabr
       /\ calls[Len(calls)].status = "failure"
       /\ Len(FallbackDownloads) = Len(ExpectedClients)

\* C3: the primary download of a YouTube job that exits non-zero is
\* classified sabr_related exactly when the text it wrote to its error stream
\* contains one of the restriction phrases.
C3_ClassifiedByDiagnostic ==
    (PrimaryFailed /\ platform = "youtube")
    => (primary.sabr_related <=> PrimaryDiagBlocked)

\* C4: after a primary download that exits non-zero, the fallback loop is
\* entered exactly when fallback is permitted (the flag, on a YouTube URL) and
\* the failure is PlatformBlocked or no client identity was given; the loop's
\* list is then YOUTUBE_CLIENTS in order minus the primary's identity, and
\* otherwise the job has failed after its one download.
C4_FallbackEntry ==
    PrimaryFailed =>
        LET due == /\ platform = "youtube"
                   /\ ~args.no_fallback
                   /\ (PrimaryCategory = "PlatformBlocked" \/ Falsy(args.youtube_client))
        IN  /\ due <=> nFallback >= 1
            /\ (nFallback >= 1 /\ stack # <<>>) =>
                  stack[1].available_clients = ExpectedClients
            /\ ~due => (result = "False" /\ Len(Downloads) = 1)

\* C5 as stated: a primary failure classified Generic or Timeout ends the
\* job in Failure with no fallback-client and no alternate-mode attempt.
C5_OnlyPlatformBlockedRetries ==
    PrimaryCategory \in {"Generic", "Timeout"}
    => /\ result = "False"
       /\ Len(Downloads) = 1
       /\ nFallback = 0 /\ nSabr = 0

\* C5, amended: a Timeout of the primary attempt always ends the job in
\* Failure after its one download; a Generic failure does so when a client
\* identity was given, fallback is disabled or the URL is not YouTube, and
\* otherwise (YouTube, fallback enabled, no client identity) starts the
\* fallback-client loop.
C5_TerminalFailures ==
    LET terminal == /\ result = "False"
                    /\ Len(Downloads) = 1
                    /\ nFallback = 0 /\ nSabr = 0
        loops    == /\ platform = "youtube"
                    /\ ~args.no_fallback
                    /\ Falsy(args.youtube_client)
    IN  /\ PrimaryCategory = "Timeout" => terminal
        /\ (PrimaryCategory = "Generic" /\ ~loops) => terminal
        /\ (PrimaryCategory = "Generic" /\ loops) =>
              /\ nFallback = 1
              /\ Len(Downloads) > 1 \/ result \notin {"True", "False"}

\* The primary attempt of a YouTube job with fallback enabled and no client
\* identity timed out, and the job failed.
C5_Witness ==
    /\ PrimaryCategory = "Timeout"
    /\ platform = "youtube" /\ ~args.no_fallback /\ Falsy(args.youtube_client)
    /\ result = "False"

\* A download that exits non-zero with a diagnostic free of restriction
\* phrases, and one that times out.
GenericFailure ==
    Outcome("CalledProcessError", <<>>,
            << "ERROR: [youtube] VIDEO_ID: Video unavailable" >>)

TimedOut == Outcome("TimeoutExpired", <<>>, <<>>)

\* C6 as stated: whenever a download is running, its timing out and its
\* failing with a Generic error leave the job in the same state (the same
\* next attempt, or the same result).
C6_TimeoutLikeGeneric ==
    (result = "running" /\ Top.pc = "run")
    => HandleDownload(platform, stack, TimedOut)
         = HandleDownload(platform, stack, GenericFailure)

\* C6, amended: a timeout of the primary download ends the job in Failure at
\* once; it leaves the job as a Generic failure does exactly when the Generic
\* failure starts no fallback loop (a client identity was given, fallback is
\* off, or the URL is not YouTube); a timeout of a nested (fallback-client or
\* alternate-mode) download always leaves the job as a Generic failure does.
C6_TimeoutTerminalOnPrimary ==
    (result = "running" /\ Top.pc = "run")
    => LET t     == HandleDownload(platform, stack, TimedOut)
           g     == HandleDownload(platform, stack, GenericFailure)
           loops == /\ platform = "youtube"
                    /\ Top.try_fallback_clients
                    /\ Falsy(Top.youtube_client)
       IN  /\ Len(stack) = 1 => (t.result = "False" /\ t.stack = <<>>)
           /\ Len(stack) = 1 => ((t = g) <=> ~loops)
           /\ Len(stack) >= 2 => t = g

\* A fallback-client download timed out and the attempt for the next client
\* has started.
C6_Witness ==
    /\ last = [exc |-> "TimeoutExpired", depth |-> 2]
    /\ result = "running"
    /\ Len(stack) = 2
    /\ Len(FallbackDownloads) >= 1
    /\ Top.youtube_client = ExpectedClients[Len(FallbackDownloads) + 1]

\* C7: the fallback-client downloads are made for the identities of
\* YOUTUBE_CLIENTS minus the primary's, in that order, one each; none follows
\* a successful one; a failed one is followed by the attempt for the next
\* identity, and the job returns False only when every identity was tried.
C7_FallbackInOrder ==
    LET fb == FallbackDownloads
    IN  /\ Len(fb) <= Len(ExpectedClients)
        /\ \A i \in 1..Len(fb) : fb[i].youtube_client = ExpectedClients[i]
        /\ \A i \in 1..(Len(fb) - 1) : fb[i].status = "failure"
        /\ ( /\ result = "running"
             /\ fb # <<>>
             /\ fb[Len(fb)].status = "failure"
             /\ Len(fb) < Len(ExpectedClients) )
           => /\ Len(stack) = 2
              /\ Top.youtube_client = ExpectedClients[Len(fb) + 1]
        /\ (result = "True" /\ fb # <<>>) => fb[Len(fb)].status = "success"
        /\ (result = "False" /\ nFallback >= 1) =>
              /\ Len(fb) = Len(ExpectedClients)
              /\ fb[Len(fb)].status = "failure"

\* With no identity on the primary attempt, web and android failed and tv
\* succeeded: the job returned True without trying the music clients.
C7_Witness ==
    /\ result = "True"
    /\ args.youtube_client = None
    /\ Len(FallbackDownloads) = 3
    /\ FallbackDownloads[3].youtube_client = "tv"
    /\ FallbackDownloads[3].status = "success"

\* C8: every nested activation runs with client fallback disabled and none
\* makes a nested call of its own: the stack is at most two deep, only main's
\* activation is ever in the loop or in the SABR call, and a job enters the
\* fallback loop at most once and the alternate mode at most once.
C8_NoReentry ==
    /\ Len(stack) <= 2
    /\ \A i \in 2..Len(stack) :
          /\ ~stack[i].try_fallback_clients
          /\ stack[i].pc \notin {"loop", "sabr"}
    /\ \A i \in 1..Len(calls) :
          calls[i].depth >= 2 => ~calls[i].try_fallback_clients
    /\ nFallback <= 1
    /\ nSabr <= 1

\* A nested download failed after the loop was entered, and the job went on
\* to the next identity.
C8_Witness ==
    /\ nFallback = 1
    /\ last.depth = 2 /\ last.exc = "CalledProcessError"
    /\ result = "running"
    /\ Len(FallbackDownloads) = 2

\* C9: a YouTube job whose primary attempt (without SABR, with fallback
\* enabled) failed with a restriction phrase in its diagnostic text, and that
\* ended in Failure, has made an alternate-mode attempt: one download, nested
\* in main's activation, with SABR enabled, the client identity web and
\* client fallback disabled.
C9_AlternateModeAttempt ==
    ( /\ result = "False"
      /\ platform = "youtube"
      /\ PrimaryFailed /\ PrimaryDiagBlocked
      /\ ~args.no_fallback
      /\ ~args.enable_sabr )
    => \E i \in 1..Len(calls) :
          /\ calls[i].kind = "download"
          /\ calls[i].depth = 2
          /\ calls[i].try_sabr
          /\ calls[i].youtube_client = "web"
          /\ ~calls[i].try_fallback_clients
          /\ \A j \in 1..Len(calls) :
                (calls[j].kind = "download" /\ calls[j].try_sabr) => j = i

\* C10: an external call that the user interrupts is the last invocation of
\* the job, in whichever activation it was made: the stack is unwound to main,
\* which ends on its KeyboardInterrupt clause with exit code 1.
C10_InterruptEndsJob ==
    \A i \in 1..Len(calls) :
        calls[i].status = "interrupt"
        => /\ i = Len(calls)
           /\ stack = <<>>
           /\ result = "KeyboardInterrupt"
           /\ ExitCode(result) = 1

\* The download of the third fallback-client attempt was interrupted.
C10_Witness ==
    /\ calls # <<>>
    /\ calls[Len(calls)].status = "interrupt"
    /\ calls[Len(calls)].kind = "download"
    /\ calls[Len(calls)].depth = 2
    /\ Len(FallbackDownloads) = 3
    /\ result = "KeyboardInterrupt"

\* C11: when mkdir fails in an activation, at whatever depth, the job ends
\* there: the stack is unwound to main, which ends on its YtDlpWrapperError
\* clause (exit code 1, not the False of a failed attempt); the last
\* invocation is that activation's metadata query, so the attempt issued no
\* download and no later attempt was started.  The job ends this way only
\* when a mkdir failed.
C11_MkdirFailureIsFatal ==
    /\ fatal # 0 =>
          /\ result = "YtDlpWrapperError"
          /\ stack = <<>>
          /\ ExitCode(result) = 1
          /\ calls # <<>>
          /\ calls[Len(calls)].kind = "metadata"
          /\ calls[Len(calls)].depth = fatal
    /\ result = "YtDlpWrapperError" => fatal # 0

\* mkdir failed in the third fallback-client attempt.
C11_Witness ==
    /\ fatal = 2
    /\ Len(FallbackDownloads) = 2
    /\ result = "YtDlpWrapperError"

\* The height the claim gives a line: the H of its WxH, 0 without one.
ClaimedHeight(line) == IF line.res = <<>> THEN 0 ELSE line.res[2]

\* C12: check_premium_formats returns the id of the first line, among those
\* with the Premium marker and a leading numeric id, whose height (0 without
\* a WxH) is the greatest, followed by "+bestaudio/best"; it returns None
\* only when the listing has no such line.
C12_PremiumSelection ==
    (fn.op = "check_premium_formats" /\ fn.done /\ fn.in.exc = "none")
    => LET lines == fn.in.stdout
           prem  == { i \in 1..Len(lines) : lines[i].premium /\ lines[i].id # "" }
           best  == CHOOSE i \in prem :
                       /\ \A j \in prem : ClaimedHeight(lines[j]) <= ClaimedHeight(lines[i])
                       /\ \A j \in prem : ClaimedHeight(lines[j]) = ClaimedHeight(lines[i])
                                            => i <= j
       IN  IF prem = {} THEN fn.out = NONE
           ELSE fn.out = << lines[best].id, "+bestaudio/best" >>

\* The calls of create_output_dir that returned a path.
DirReturned == { k \in 1..Len(fn.out) : fn.out[k].exc = "none" }

\* The folder name of a returned path: what follows the Downloads directory.
NameOf(path) == SubSeq(path, 2, Len(path))

\* An 8-digit date stamp YYYYMMDD written as YYYY.MM.DD, by position.
Dotted(d) == SubSeq(d, 1, 4) \o << "." >> \o SubSeq(d, 5, 6) \o << "." >> \o SubSeq(d, 7, 8)

\* The part of a folder name after the date and the separator.
TitlePart(name) == SubSeq(name, 12, Len(name))

\* t is title sanitized: no forbidden character is left, the kept characters
\* appear unchanged and in order from the first that is not whitespace, at
\* most TitleLimit of them, and only whitespace is cut unless the limit is hit.
Sanitized(t, title) ==
    LET kept == SelectSeq(title, LAMBDA c : c \notin ForbiddenChars)
    IN  /\ \A i \in 1..Len(t) : t[i] \notin ForbiddenChars
        /\ Len(t) <= TitleLimit
        /\ \E k \in 0..Len(kept) :
              /\ k + Len(t) <= Len(kept)
              /\ t = SubSeq(kept, k + 1, k + Len(t))
              /\ \A i \in 1..k : kept[i] \in Whitespace
              /\ k < Len(kept) => kept[k + 1] \notin Whitespace
              /\ Len(t) < TitleLimit =>
                    /\ \A i \in (k + Len(t) + 1)..Len(kept) : kept[i] \in Whitespace
                    /\ (Len(t) > 0 => t[Len(t)] \notin Whitespace)

\* The general part of C13: date, separator, sanitized title.
DirNameShape ==
    (fn.op = "create_output_dir")
    => \A k \in DirReturned :
          LET name == NameOf(fn.out[k].path)
          IN  /\ Len(name) >= 11
              /\ name[11] = " - "
              /\ SubSeq(name, 1, 10) =
                     IF fn.in.date_str = ExampleDate THEN Dotted(ExampleDate) ELSE Days[fn.out[k].day]
              /\ Sanitized(TitlePart(name), fn.in.title)

\* The names the scenario yields, with one blank and with two between Q3 and Final.
ExampleNameClaimed == << "2024.01.31 - Report Q3 Final" >>

ExampleNameFromCode == << "2024.01.31 - Report Q3  Final" >>

\* A text of chunks written out as one string, for the texts of the scenario.
RECURSIVE Joined(_)
Joined(t) == IF t = <<>> THEN "" ELSE t[1] \o Joined(Tail(t))

IsExample == fn.op = "create_output_dir" /\ fn.in.title = ExampleTitle /\ fn.in.date_str = ExampleDate

\* C13 as stated: the name of the destination directory is
\* '<date> - <sanitized title>', and title 'Report: Q3 / Final?' with date
\* '20240131' yields '2024.01.31 - Report Q3 Final'.
C13_NameAsClaimed ==
    /\ DirNameShape
    /\ IsExample => \A k \in DirReturned : << Joined(NameOf(fn.out[k].path)) >> = ExampleNameClaimed

\* C13 amended: the name of the destination directory is
\* '<date> - <sanitized title>' (date stamp as YYYY.MM.DD, title with the
\* forbidden characters removed, then trimmed, then cut to 100 characters),
\* and the scenario yields '2024.01.31 - Report Q3  Final': removing ':' and
\* '/' leaves the blanks around '/' side by side.
C13_DirectoryName ==
    /\ DirNameShape
    /\ IsExample => \A k \in DirReturned : << Joined(NameOf(fn.out[k].path)) >> = ExampleNameFromCode

C13_Witness == IsExample /\ fn.done /\ DirReturned # {}

\* The pairs of an earlier and a later call of create_output_dir.
DirPairs == { p \in (1..Len(fn.out)) \X (1..Len(fn.out)) : p[1] < p[2] }

\* The date stamp is present and names a date that exists.
DateUsable(d) == ~FalsyText(d) /\ Strptime(d).ok

\* C14 as stated: for every (title, date), a date that is absent or
\* unparseable included, a later call with the same arguments returns the
\* path the earlier call returned and does not fail on the existing directory.
C14_IdempotentAsClaimed ==
    (fn.op = "create_output_dir")
    => \A p \in DirPairs :
          fn.out[p[1]].exc = "none"
          => /\ fn.out[p[2]].exc = "none"
             /\ fn.out[p[2]].path = fn.out[p[1]].path

\* C14 amended: when the date stamp is a valid date, or both calls fall on
\* the same local date, a later call with the same arguments returns the
\* path the earlier call returned and does not fail on the directory the
\* earlier call made.
C14_IdempotentNaming ==
    (fn.op = "create_output_dir")
    => \A p \in DirPairs :
          ( /\ fn.out[p[1]].exc = "none"
            /\ DateUsable(fn.in.date_str) \/ fn.out[p[1]].day = fn.out[p[2]].day )
          => /\ fn.out[p[2]].exc = "none"
             /\ fn.out[p[2]].path = fn.out[p[1]].path

\* Two calls on different days with a valid date stamp, and two calls on the
\* same day without one, have returned.
C14_Witness ==
    /\ fn.op = "create_output_dir" /\ fn.done
    /\ \A k \in 1..Len(fn.out) : fn.out[k].exc = "none"
    /\ fn.out[1].path \in fn.fs
    /\ \/ DateUsable(fn.in.date_str) /\ fn.out[1].day # fn.out[Len(fn.out)].day
       \/ fn.in.date_str = NONE /\ fn.out[1].day = fn.out[Len(fn.out)].day

\* The records of one container in the parsed catalog.
OfContainer(c) == { i \in 1..Len(fn.catalog) : fn.catalog[i].container = c }

\* id is the id of a record of container c whose bitrate no record of that
\* container exceeds and no earlier record of that container equals.
IsBestId(id, c) ==
    \E i \in OfContainer(c) :
        /\ fn.catalog[i].id = id
        /\ \A j \in OfContainer(c) : fn.catalog[j].bitrateKbps <= fn.catalog[i].bitrateKbps
        /\ \A j \in OfContainer(c) :
              fn.catalog[j].bitrateKbps = fn.catalog[i].bitrateKbps => i <= j

\* C15: for a parsed catalog with a video and an audio candidate,
\* SeparateStreams returns the video id and the audio id of greatest bitrate
\* in their container, the first seen on ties; the scenario's three lines
\* select video 137 and audio 140; for an empty catalog it returns 'no
\* suitable stream' and the caller uses the declarative expression.
C15_SelectorMonotonicity ==
    (fn.op = "separate_streams" /\ fn.done)
    => /\ (OfContainer(VideoContainer) # {} /\ OfContainer(AudioContainer) # {})
          => /\ fn.out.found
             /\ IsBestId(fn.out.video, VideoContainer)
             /\ IsBestId(fn.out.audio, AudioContainer)
       /\ fn.in = ExampleCatalog
          => fn.out = [found |-> TRUE, video |-> << "1", "3", "7" >>, audio |-> << "1", "4", "0" >>]
       /\ fn.catalog = <<>>
          => fn.out = NoSuitableStream /\ fn.selector = DEFAULT_FORMAT_SELECTOR

\* Two video records of the same greatest bitrate, and an audio record.
C15_Witness ==
    /\ fn.op = "separate_streams" /\ fn.done /\ fn.out.found
    /\ \E i, j \in OfContainer(VideoContainer) :
          /\ i < j
          /\ fn.catalog[i].bitrateKbps = fn.catalog[j].bitrateKbps
          /\ fn.catalog[i].id = fn.out.video
          /\ fn.catalog[j].id # fn.out.video

\* The positions in calls of the download invocations that succeeded.
Succeeded == { i \in 1..Len(calls) : calls[i].kind = "download" /\ calls[i].status = "success" }

\* C16: once a download invocation of the job succeeds no further external
\* invocation is issued and download_video returns True; it returns True
\* only if some download invocation succeeded, and False when every download
\* invocation it issued failed or timed out.
C16_SuccessIsTerminal ==
    /\ \A i \in Succeeded : i = Len(calls) /\ result = "True"
    /\ result = "True" => Succeeded # {}
    /\ result \in { "True", "False" } => Downloads # <<>>
    /\ (result \in { "True", "False" } /\ Succeeded = {}) => result = "False"
    /\ result = "False" => \A i \in 1..Len(Downloads) : Downloads[i].status = "failure"

\* A fallback client succeeded after the primary attempt and an earlier
\* fallback client had failed.
C16_Witness ==
    /\ result = "True"
    /\ Len(Downloads) >= 3
    /\ calls[Len(calls)].kind = "download"
    /\ calls[Len(calls)].depth = 2
    /\ calls[Len(calls)].status = "success"

\* Arguments without the '--extractor-args' options: the flag goes together
\* with the value that follows it, every other argument stays in its place.
RECURSIVE WithoutExtractorArgs(_)
WithoutExtractorArgs(extra) ==
    IF extra = <<>> THEN <<>>
    ELSE IF Head(extra) = << "--extractor-args" >>
         THEN WithoutExtractorArgs(SubSeq(extra, 3, Len(extra)))
         ELSE << Head(extra) >> \o WithoutExtractorArgs(Tail(extra))

\* C17: in every fallback-client attempt and in the alternate-mode attempt
\* the pass-through arguments are the caller's extra arguments with each
\* '--extractor-args' option removed, flag and value, and every other
\* argument kept in its original order.
C17_PassThroughFiltered ==
    \A k \in 2..Len(stack) : stack[k].extra_args = WithoutExtractorArgs(args.extra_args)

\* C18: every download invocation of the job, of a fallback-client attempt
\* or of the alternate-mode attempt, writes to the destination directory of
\* the primary attempt, whatever the metadata queries returned.
C18_SameDestination ==
    (result = "running" /\ Len(stack) >= 2 /\ Top.pc = "run")
    => \E i \in 1..(Len(Top.base_cmd) - 1) :
          Top.base_cmd[i] = << "-P" >> /\ Top.base_cmd[i + 1] = stack[1].output_dir

\* The stream-listing queries of the job.
ListingCalls == SelectSeq(calls, LAMBDA c : c.kind = "listing")

\* The selector of the download an activation is about to issue.
SelectorInUse(f) == f.format_selector

\* C19: the stream selector is resolved once per job: the stream-listing
\* query is issued at most once, only in the primary attempt, only for
\* YouTube with premium preference on and no explicit selector; every nested
\* attempt uses the selector of the primary attempt, which is the explicit
\* selector if given, else the premium selector or DEFAULT_FORMAT_SELECTOR.
C19_SelectorResolvedOnce ==
    /\ Len(ListingCalls) <= 1
    /\ \A i \in 1..Len(ListingCalls) :
          /\ ListingCalls[i].depth = 1
          /\ platform = "youtube" /\ ~args.no_premium /\ args.format = NONE
    /\ (result = "running" /\ Top.pc = "run")
       => /\ SelectorInUse(Top) = SelectorInUse(stack[1])
          /\ args.format # NONE => SelectorInUse(Top) = args.format
          /\ (args.format = NONE /\ ListingCalls = <<>>)
                => SelectorInUse(Top) = DEFAULT_FORMAT_SELECTOR

\* The part of a command that download_video builds itself: all but the
\* pass-through arguments and the URL at its end.
OwnPart(f) == SubSeq(f.base_cmd, 1, Len(f.base_cmd) - Len(f.extra_args) - 1)

\* An element of a command that is a client-identity or alternate-mode
\* extractor option, or the flag that introduces one.
IsExtractorOption(arg) ==
    \/ StartsWith(arg, "--extractor-args")
    \/ StartsWith(arg, "youtube:player-client=")
    \/ StartsWith(arg, "youtube:formats=duplicate")

\* C20: for a URL whose platform is not YouTube the job issues one download
\* invocation and no more, whatever the fallback, client-identity and
\* alternate-mode flags and the diagnostic text of the failure, and that
\* invocation carries no client-identity or alternate-mode extractor option.
C20_OtherPlatformsSingleAttempt ==
    (platform # "youtube")
    => /\ Len(Downloads) <= 1
       /\ Len(stack) <= 1
       /\ nFallback = 0 /\ nSabr = 0
       /\ result \in { "True", "False" } => Len(Downloads) = 1
       /\ (result = "running" /\ Top.pc = "run")
          => /\ \A i \in 1..Len(OwnPart(Top)) : ~IsExtractorOption(OwnPart(Top)[i])
             /\ Top.base_cmd[Len(Top.base_cmd)] = url.text

\* A download for x.com with a client identity, the alternate mode and the
\* fallback switched on failed with a restriction phrase, and the job ended.
C20_Witness ==
    /\ platform = "x"
    /\ args.youtube_client = "android" /\ args.enable_sabr /\ ~args.no_fallback
    /\ PrimaryFailed /\ PrimaryDiagBlocked
    /\ result = "False"
    /\ Len(Downloads) = 1

====
